---- MODULE Spec2Model ----
(***************************************************************************)
(* Model of waveform/mode.py: class UniversalWaveMode.                     *)
(*                                                                         *)
(* Real numbers are exact rationals <<n, d>> (d > 0, lowest terms).        *)
(* Phases are counted in quarter turns (pi/2), so that exp(1j * phase) is  *)
(* one of 1, i, -1, -i and complex arithmetic is exact.  A complex number  *)
(* is a pair <<re, im>> of rationals.  An optional value (Python None or a *)
(* value) is the empty tuple or a one-element tuple.                       *)
(***************************************************************************)
EXTENDS Integers, Sequences, FiniteSets, TLC

VARIABLES
    in_time,      \* argument time_array of __init__
    nu,           \* argument nu
    parity,       \* argument parity
    m,            \* argument m
    disk,         \* contents of polynomial_dir: file name -> pickled model
    time_array,   \* self.time_array
    u_cut_value,  \* self.u_cut_value
    phase,        \* self.phase
    amplitude,    \* self.amplitude
    waveform,     \* self.waveform
    adiabatic,    \* local of generate_waveform
    gui,          \* local of generate_waveform
    pc,           \* position in __init__ / generate_waveform
    err,          \* the exception that left __init__, if any
    loads,        \* file names passed to _load_polynomial, in order
    calls         \* regime evaluators invoked, in order, with their time grid

vars == <<in_time, nu, parity, m, disk, time_array, u_cut_value, phase,
          amplitude, waveform, adiabatic, gui, pc, err, loads, calls>>

\* Longest input time array of the model.
MaxLen == 3

----------------------------------------------------------------------------
(* Exact arithmetic standing for the float arithmetic of the source.       *)

Abs(x) == IF x < 0 THEN -x ELSE x

RECURSIVE GCD(_, _)
GCD(a, b) == IF b = 0 THEN a ELSE GCD(b, a % b)

Norm(n, d) ==
    LET s == IF d < 0 THEN -1 ELSE 1
        g == GCD(Abs(n), Abs(d))
    IN  <<(s * n) \div g, (s * d) \div g>>

Real(k) == <<k, 1>>

RAdd(a, b) == Norm(a[1] * b[2] + b[1] * a[2], a[2] * b[2])

RNeg(a) == <<-a[1], a[2]>>

RSub(a, b) == RAdd(a, RNeg(b))

RMul(a, b) ==
    LET x == Norm(a[1], b[2])
        y == Norm(b[1], a[2])
    IN  Norm(x[1] * y[1], x[2] * y[2])

RDiv(a, b) == RMul(a, Norm(b[2], b[1]))

RLt(a, b) == a[1] * b[2] < b[1] * a[2]

RLe(a, b) == a[1] * b[2] <= b[1] * a[2]

\* The fifth root of n, rounded down; exact for the perfect fifth powers
\* that the valid values of nu in NuVals are made of.
Root5(n) ==
    CHOOSE r \in 0..n :
        /\ r * r * r * r * r <= n
        /\ n < (r + 1) * (r + 1) * (r + 1) * (r + 1) * (r + 1)

\* x ** 0.2
Pow02(x) == <<Root5(x[1]), Root5(x[2])>>

\* complex numbers
CMul(a, b) ==
    <<RSub(RMul(a[1], b[1]), RMul(a[2], b[2])),
      RAdd(RMul(a[1], b[2]), RMul(a[2], b[1]))>>

\* real * complex
CScale(r, c) == <<RMul(r, c[1]), RMul(r, c[2])>>

\* np.exp(1.j * x), x a whole number of quarter turns
Cis(x) ==
    LET k == x[1] % 4
    IN  CASE x[2] = 1 /\ k = 0 -> <<Real(1), Real(0)>>
          [] x[2] = 1 /\ k = 1 -> <<Real(0), Real(1)>>
          [] x[2] = 1 /\ k = 2 -> <<Real(-1), Real(0)>>
          [] x[2] = 1 /\ k = 3 -> <<Real(0), Real(-1)>>

SeqOfLen(S, n) == UNION {[1..k -> S] : k \in 0..n}

----------------------------------------------------------------------------
(* Optional values, exceptions                                             *)

None == <<>>
Some(x) == <<x>>
Val(o) == o[1]

NoErr == [type |-> "", msg |-> ""]
ErrNu == [type |-> "ValueError", msg |-> "nu must be in (0, 0.25)"]
ErrParity == [type |-> "ValueError", msg |-> "parity must be 'e' or 'o'"]
ErrMinEmpty == [type |-> "ValueError", msg |-> "min() arg is an empty sequence"]
ErrEmptyGrid == [type |-> "ValueError", msg |-> "Empty time grid - no waveform to generate."]
ErrFile(f) == [type |-> "FileNotFoundError", msg |-> f]

----------------------------------------------------------------------------
(* Inputs of the model                                                     *)

NuVals == {<<0, 1>>, <<1, 4>>, <<3, 10>>, <<1, 32>>, <<1, 3125>>}

ParityVals == {"e", "o", "x"}

MVals == {1, 2}

\* -8000.1, -8000 (= -250/nu for nu = 1/32), -412.2 (= u_cut(1/3125)),
\* -126.9 (= u_cut(1/32)), 100, 100.1
TimeVals == {<<-80001, 10>>, <<-8000, 1>>, <<-2061, 5>>, <<-1269, 10>>,
             <<100, 1>>, <<1001, 10>>}

AdbPhaseFile == "adb_phase_polynomial.pkl"
AdbAmpFile == "adb_amp_polynomial.pkl"
GuiPhaseFile == "gui_phase_polynomial.pkl"
GuiAmpFile == "gui_amp_polynomial.pkl"
Files == {AdbPhaseFile, AdbAmpFile, GuiPhaseFile, GuiAmpFile}

\* A pickled model is the polynomial c0 + c1 * x; a missing file has exists = FALSE.
Missing == [exists |-> FALSE, c0 |-> 0, c1 |-> 0]
PhaseModels == {[exists |-> TRUE, c0 |-> 1, c1 |-> 10],
                [exists |-> TRUE, c0 |-> 2, c1 |-> -10]}
AmpModels == {[exists |-> TRUE, c0 |-> 3, c1 |-> 1]}

Disks ==
    {d \in [Files -> PhaseModels \cup AmpModels \cup {Missing}] :
        /\ d[AdbPhaseFile] \in PhaseModels \cup {Missing}
        /\ d[GuiPhaseFile] \in PhaseModels \cup {Missing}
        /\ d[AdbAmpFile] \in AmpModels \cup {Missing}
        /\ d[GuiAmpFile] \in AmpModels \cup {Missing}}

----------------------------------------------------------------------------
(* Pure parts of the class                                                 *)

\* mutant of NuValid: the upper end of the interval accepted
NuValidClosed(x) == RLt(Real(0), x) /\ RLe(x, <<1, 4>>)

\* 0 < nu < 0.25
NuValid(x) == RLt(Real(0), x) /\ RLt(x, <<1, 4>>)

ParityValid(p) == p \in {"e", "o"}

\* -2.5e2 / nu
LowerBound(x) == RDiv(Real(-250), x)

UpperBound == Real(100)

\* mutant of InRange: the upper end of the range dropped
InRangeStrict(t, x) == RLe(RDiv(Real(-250), x), t) /\ RLt(t, Real(100))

\* (time_array >= -2.5e2 / nu) & (time_array <= 100.)
InRange(t, x) == RLe(LowerBound(x), t) /\ RLe(t, UpperBound)

\* min(time_array) < -2.5e2 / nu or max(time_array) > 100.
OutOfBounds(ts, x) ==
    \E i \in 1..Len(ts) : RLt(ts[i], LowerBound(x)) \/ RLt(UpperBound, ts[i])

Truncate(ts, x) ==
    IF OutOfBounds(ts, x)
    THEN SelectSeq(ts, LAMBDA t : InRange(t, x))
    ELSE ts

\* -101.6 * (nu ** -0.2) + 108.8 - 65 * (nu ** 0.2)
u_cut(x) ==
    RSub(RAdd(RMul(<<-1016, 10>>, RDiv(Real(1), Pow02(x))), <<1088, 10>>),
         RMul(Real(65), Pow02(x)))

\* mutant of InAdiabatic: a sample equal to the cut is in no sub-range
InAdiabaticStrict(t, uc) == RLt(t, uc)

\* time_array <= u_cut_value
InAdiabatic(t, uc) == RLe(t, uc)

\* mutant of InGui: a sample equal to the cut is in both sub-ranges
InGuiInclusive(t, uc) == RLe(uc, t)

\* time_array > u_cut_value
InGui(t, uc) == RLt(uc, t)

AdbGrid(ts, uc) == SelectSeq(ts, LAMBDA t : InAdiabatic(t, uc))

GuiGrid(ts, uc) == SelectSeq(ts, LAMBDA t : InGui(t, uc))

\* a loaded polynomial called on x
Eval(p, x) == RAdd(Real(p.c0), RMul(Real(p.c1), x))

\* nu * (time_grid - u_cut_value)
NuScaledTime(t) == RMul(nu, RSub(t, Val(u_cut_value)))

\* phase_poly(nu_scaled_time) * m / nu
AdbPhase(t) == RDiv(RMul(Eval(disk[AdbPhaseFile], NuScaledTime(t)), Real(m)), nu)

AdbAmplitude(t) == Eval(disk[AdbAmpFile], NuScaledTime(t))

GuiPhase(t) == Eval(disk[GuiPhaseFile], t)

GuiAmplitude(t) == Eval(disk[GuiAmpFile], t)

\* amplitude * np.exp(1.j * phase)
Polar(a, p) == CScale(a, Cis(p))

AdiabaticPart(grid) ==
    [time      |-> grid,
     phase     |-> [i \in 1..Len(grid) |-> AdbPhase(grid[i])],
     amplitude |-> [i \in 1..Len(grid) |-> AdbAmplitude(grid[i])],
     waveform  |-> [i \in 1..Len(grid) |->
                        Polar(AdbAmplitude(grid[i]), AdbPhase(grid[i]))]]

GuiPart(grid) ==
    [time      |-> grid,
     phase     |-> [i \in 1..Len(grid) |-> GuiPhase(grid[i])],
     amplitude |-> [i \in 1..Len(grid) |-> GuiAmplitude(grid[i])],
     waveform  |-> [i \in 1..Len(grid) |->
                        Polar(GuiAmplitude(grid[i]), GuiPhase(grid[i]))]]

\* mutant of PhaseShift: the first adiabatic phase instead of the last
PhaseShiftFirst(a, g) == RSub(a.phase[1], g.phase[1])

\* adiabatic["phase"][-1] - gui["phase"][0]
PhaseShift(a, g) == RSub(a.phase[Len(a.phase)], g.phase[1])

\* mutant of ShiftPhase: only the last adiabatic phase is shifted
ShiftPhaseLastOnly(ps, s) ==
    [i \in 1..Len(ps) |-> IF i = Len(ps) THEN RSub(ps[i], s) ELSE ps[i]]

\* adiabatic["phase"] -= phase_shift
ShiftPhase(ps, s) == [i \in 1..Len(ps) |-> RSub(ps[i], s)]

\* mutant of ShiftWaveform: the waveform rotated the wrong way
ShiftWaveformPlus(ws, s) == [i \in 1..Len(ws) |-> CMul(ws[i], Cis(s))]

\* adiabatic["waveform"] *= np.exp(-1.j * phase_shift)
ShiftWaveform(ws, s) == [i \in 1..Len(ws) |-> CMul(ws[i], Cis(RNeg(s)))]

\* mutant of PassThrough: the phase rebased to start at zero
PassThroughRebased(seg) ==
    [phase |-> [i \in 1..Len(seg.phase) |-> RSub(seg.phase[i], seg.phase[1])],
     amplitude |-> seg.amplitude, waveform |-> seg.waveform]

\* self.phase, self.amplitude, self.waveform taken from the only segment
PassThrough(seg) ==
    [phase |-> seg.phase, amplitude |-> seg.amplitude, waveform |-> seg.waveform]

\* the file names _load_polynomial is called with by one evaluator
LoadsOf(f1, f2) == IF disk[f1].exists THEN <<f1, f2>> ELSE <<f1>>

\* mutant of LoadError: the amplitude file's existence is not checked
LoadErrorFirstOnly(f1, f2) == IF ~disk[f1].exists THEN ErrFile(f1) ELSE NoErr

\* the evaluator's FileNotFoundError, if one of its two loads raises
LoadError(f1, f2) ==
    IF ~disk[f1].exists THEN ErrFile(f1)
    ELSE IF ~disk[f2].exists THEN ErrFile(f2)
    ELSE NoErr

----------------------------------------------------------------------------
(* The state machine                                                       *)

Init ==
    /\ in_time \in SeqOfLen(TimeVals, MaxLen)
    /\ nu \in NuVals
    /\ parity \in ParityVals
    /\ m \in MVals
    /\ disk \in Disks
    /\ time_array = None
    /\ u_cut_value = None
    /\ phase = None
    /\ amplitude = None
    /\ waveform = None
    /\ adiabatic = None
    /\ gui = None
    /\ pc = "new"
    /\ err = NoErr
    /\ loads = <<>>
    /\ calls = <<>>

Raise(e) == pc' = "raised" /\ err' = e

\* __init__ up to the call of generate_waveform
Construct ==
    /\ pc = "new"
    /\ IF ~NuValid(nu) THEN
           /\ Raise(ErrNu)
           /\ UNCHANGED <<time_array, u_cut_value>>
       ELSE IF ~ParityValid(parity) THEN
           /\ Raise(ErrParity)
           /\ UNCHANGED <<time_array, u_cut_value>>
       ELSE IF Len(in_time) = 0 THEN
           /\ Raise(ErrMinEmpty)
           /\ UNCHANGED <<time_array, u_cut_value>>
       ELSE
           /\ time_array' = Some(Truncate(in_time, nu))
           /\ u_cut_value' = Some(u_cut(nu))
           /\ pc' = "adiabatic"
           /\ err' = err
    /\ UNCHANGED <<in_time, nu, parity, m, disk, phase, amplitude, waveform,
                   adiabatic, gui, loads, calls>>

\* generate_waveform: the adiabatic sub-range and its evaluator
GenerateAdiabatic ==
    /\ pc = "adiabatic"
    /\ LET grid == AdbGrid(Val(time_array), Val(u_cut_value))
       IN  IF Len(grid) = 0 THEN
               /\ adiabatic' = None
               /\ pc' = "gui"
               /\ UNCHANGED <<err, loads, calls>>
           ELSE
               /\ calls' = Append(calls, [regime |-> "adiabatic", grid |-> grid])
               /\ loads' = loads \o LoadsOf(AdbPhaseFile, AdbAmpFile)
               /\ IF LoadError(AdbPhaseFile, AdbAmpFile) # NoErr THEN
                      /\ Raise(LoadError(AdbPhaseFile, AdbAmpFile))
                      /\ UNCHANGED adiabatic
                  ELSE
                      /\ adiabatic' = Some(AdiabaticPart(grid))
                      /\ pc' = "gui"
                      /\ err' = err
    /\ UNCHANGED <<in_time, nu, parity, m, disk, time_array, u_cut_value,
                   phase, amplitude, waveform, gui>>

\* generate_waveform: the GUI sub-range and its evaluator
GenerateGui ==
    /\ pc = "gui"
    /\ LET grid == GuiGrid(Val(time_array), Val(u_cut_value))
       IN  IF Len(grid) = 0 THEN
               /\ gui' = None
               /\ pc' = "stitch"
               /\ UNCHANGED <<err, loads, calls>>
           ELSE
               /\ calls' = Append(calls, [regime |-> "gui", grid |-> grid])
               /\ loads' = loads \o LoadsOf(GuiPhaseFile, GuiAmpFile)
               /\ IF LoadError(GuiPhaseFile, GuiAmpFile) # NoErr THEN
                      /\ Raise(LoadError(GuiPhaseFile, GuiAmpFile))
                      /\ UNCHANGED gui
                  ELSE
                      /\ gui' = Some(GuiPart(grid))
                      /\ pc' = "stitch"
                      /\ err' = err
    /\ UNCHANGED <<in_time, nu, parity, m, disk, time_array, u_cut_value,
                   phase, amplitude, waveform, adiabatic>>

\* _stitch_waveforms(adiabatic, gui)
StitchWaveforms ==
    /\ pc = "stitch"
    /\ IF adiabatic # None /\ gui # None THEN
           LET a == Val(adiabatic)
               g == Val(gui)
               s == PhaseShift(a, g)
               a2 == [a EXCEPT !.phase = ShiftPhase(a.phase, s),
                               !.waveform = ShiftWaveform(a.waveform, s)]
           IN  /\ adiabatic' = Some(a2)
               /\ phase' = Some(a2.phase \o g.phase)
               /\ amplitude' = Some(a2.amplitude \o g.amplitude)
               /\ waveform' = Some(a2.waveform \o g.waveform)
               /\ pc' = "done"
               /\ err' = err
       ELSE IF adiabatic # None THEN
           /\ phase' = Some(PassThrough(Val(adiabatic)).phase)
           /\ amplitude' = Some(PassThrough(Val(adiabatic)).amplitude)
           /\ waveform' = Some(PassThrough(Val(adiabatic)).waveform)
           /\ pc' = "done"
           /\ UNCHANGED <<adiabatic, err>>
       ELSE IF gui # None THEN
           /\ phase' = Some(PassThrough(Val(gui)).phase)
           /\ amplitude' = Some(PassThrough(Val(gui)).amplitude)
           /\ waveform' = Some(PassThrough(Val(gui)).waveform)
           /\ pc' = "done"
           /\ UNCHANGED <<adiabatic, err>>
       ELSE
           /\ Raise(ErrEmptyGrid)
           /\ UNCHANGED <<adiabatic, phase, amplitude, waveform>>
    /\ UNCHANGED <<in_time, nu, parity, m, disk, time_array, u_cut_value,
                   gui, loads, calls>>

Next ==
    \/ Construct
    \/ GenerateAdiabatic
    \/ GenerateGui
    \/ StitchWaveforms

Spec == Init /\ [][Next]_vars

----------------------------------------------------------------------------
(* Vocabulary of the properties, written without the operators above       *)

Terminal == pc \in {"done", "raised"}

NoResult == phase = None /\ amplitude = None /\ waveform = None

NuOutside == nu[1] <= 0 \/ 4 * nu[1] >= nu[2]

\* -250/nu <= t <= 100, for nu > 0
InPhysicalRange(t) == -250 * t[2] * nu[2] <= t[1] * nu[1] /\ t[1] <= 100 * t[2]

AtOrBelowCut(t) == t[1] * Val(u_cut_value)[2] <= Val(u_cut_value)[1] * t[2]

AdbSamples == SelectSeq(Val(time_array), LAMBDA t : AtOrBelowCut(t))

GuiSamples == SelectSeq(Val(time_array), LAMBDA t : ~AtOrBelowCut(t))

Called(r) == \E i \in 1..Len(calls) : calls[i].regime = r

Loaded(f) == \E i \in 1..Len(loads) : loads[i] = f

BothPresent == pc = "done" /\ Called("adiabatic") /\ Called("gui")

StrictlyIncreasing(ts) == \A i \in 1..(Len(ts) - 1) : RLt(ts[i], ts[i + 1])

\* raw evaluator output at one sample
RawPhase(t) == IF AtOrBelowCut(t) THEN AdbPhase(t) ELSE GuiPhase(t)

RawAmplitude(t) == IF AtOrBelowCut(t) THEN AdbAmplitude(t) ELSE GuiAmplitude(t)

RawWaveform(t) == CScale(RawAmplitude(t), Cis(RawPhase(t)))

RawShift == RSub(AdbPhase(AdbSamples[Len(AdbSamples)]), GuiPhase(GuiSamples[1]))

----------------------------------------------------------------------------
(* C1: with nu outside (0, 0.25) -- 0, 0.25 and 0.3 included -- the        *)
(* constructor raises ValueError("nu must be in (0, 0.25)") whatever the   *)
(* time domain, and no model is loaded, no evaluator is invoked and no     *)
(* phase, amplitude or waveform is ever set.                               *)
C1_InvalidNuRejected ==
    NuOutside =>
        /\ loads = <<>> /\ calls = <<>> /\ NoResult
        /\ adiabatic = None /\ gui = None /\ time_array = None
        /\ pc \in {"new", "raised"}
        /\ pc = "raised" => err = ErrNu

C1_Witness ==
    /\ pc = "raised" /\ err = ErrNu
    /\ nu = <<1, 4>> /\ Len(in_time) = MaxLen /\ parity = "x"

(* C2: for valid nu and a non-empty input, the stored time domain is the   *)
(* subsequence, in input order, of the input samples in [-250/nu, 100]:    *)
(* nothing out of range is kept, nothing in range is dropped, and an input *)
(* with no sample out of range is stored unchanged.                        *)
C2_ValidatedDomain ==
    time_array # None =>
        /\ Val(time_array) = SelectSeq(in_time, LAMBDA t : InPhysicalRange(t))
        /\ \A i \in 1..Len(Val(time_array)) : InPhysicalRange(Val(time_array)[i])
        /\ (\A i \in 1..Len(in_time) : InPhysicalRange(in_time[i]))
               => Val(time_array) = in_time

C2_Witness ==
    /\ pc = "done" /\ nu = <<1, 32>>
    /\ in_time = <<Real(100), <<-80001, 10>>, Real(-8000)>>
    /\ Val(time_array) = <<Real(100), Real(-8000)>>

(* C3: for valid nu (and parity), if no input sample lies in               *)
(* [-250/nu, 100] -- all out of range, or an empty input -- construction   *)
(* fails with ValueError("Empty time grid ..."), and no evaluator is       *)
(* invoked, no model loaded and no result set.                             *)
C3_EmptyDomainError ==
    (/\ Terminal /\ ~NuOutside /\ parity \in {"e", "o"}
     /\ \A i \in 1..Len(in_time) : ~InPhysicalRange(in_time[i]))
        => /\ pc = "raised" /\ err = ErrEmptyGrid
           /\ calls = <<>> /\ loads = <<>> /\ NoResult

C5_PhaseContinuity ==
    BothPresent =>
        Val(phase)[Len(AdbSamples)] = Val(phase)[Len(AdbSamples) + 1]

C5_Witness ==
    /\ BothPresent /\ Len(AdbSamples) = 2
    /\ AdbPhase(AdbSamples[1]) # AdbPhase(AdbSamples[2])
    /\ RawShift # Real(0)

(* C6: when only one segment is present, phase, amplitude and waveform are *)
(* that evaluator's raw output at the validated samples, unshifted.        *)
C6_SingleRegimePassthrough ==
    (pc = "done" /\ Len(calls) = 1) =>
        LET ts == Val(time_array)
        IN  /\ Val(phase) = [i \in 1..Len(ts) |-> RawPhase(ts[i])]
            /\ Val(amplitude) = [i \in 1..Len(ts) |-> RawAmplitude(ts[i])]
            /\ Val(waveform) = [i \in 1..Len(ts) |-> RawWaveform(ts[i])]
            /\ (Called("gui") <=> Len(AdbSamples) = 0)

C6_Witness ==
    /\ pc = "done" /\ Len(calls) = 1 /\ Called("gui")
    /\ Len(Val(time_array)) = 2
    /\ Val(phase)[1] # Real(0)

(* C7: after a successful construction from a strictly increasing input,   *)
(* phase, amplitude and waveform are set, are as long as time_array, and   *)
(* entry i is the value computed for time_array[i] (a sample equal to      *)
(* u_cut counting as adiabatic).                                           *)
C7_ResultCoversDomain ==
    (pc = "done" /\ StrictlyIncreasing(in_time)) =>
        LET ts == Val(time_array)
            both == Len(AdbSamples) > 0 /\ Len(GuiSamples) > 0
            ph(t) == IF both /\ AtOrBelowCut(t)
                     THEN RSub(RawPhase(t), RawShift) ELSE RawPhase(t)
        IN  /\ phase # None /\ amplitude # None /\ waveform # None
            /\ Len(Val(phase)) = Len(ts)
            /\ Len(Val(amplitude)) = Len(ts)
            /\ Len(Val(waveform)) = Len(ts)
            /\ \A i \in 1..Len(ts) :
                  /\ Val(phase)[i] = ph(ts[i])
                  /\ Val(amplitude)[i] = RawAmplitude(ts[i])
                  /\ Val(waveform)[i] = CScale(RawAmplitude(ts[i]), Cis(ph(ts[i])))

C7_Witness ==
    /\ pc = "done" /\ StrictlyIncreasing(in_time) /\ Len(in_time) = MaxLen
    /\ Len(GuiSamples) > 0
    /\ AdbSamples[Len(AdbSamples)] = Val(u_cut_value)

(* C8: if a model file of a non-empty regime is missing, construction      *)
(* fails with FileNotFoundError for such a file and sets no result, also   *)
(* when the other segment was already evaluated; if only files of an empty *)
(* regime are missing, construction succeeds.                              *)
C8_MissingModel ==
    (Terminal /\ time_array # None /\ Len(Val(time_array)) > 0) =>
        LET adbMissing == {f \in {AdbPhaseFile, AdbAmpFile} :
                              Len(AdbSamples) > 0 /\ ~disk[f].exists}
            guiMissing == {f \in {GuiPhaseFile, GuiAmpFile} :
                              Len(GuiSamples) > 0 /\ ~disk[f].exists}
        IN  IF adbMissing \cup guiMissing # {}
            THEN /\ pc = "raised"
                 /\ err.type = "FileNotFoundError"
                 /\ err.msg \in adbMissing \cup guiMissing
                 /\ NoResult
            ELSE /\ pc = "done"
                 /\ err = NoErr

C8_Witness ==
    /\ pc = "raised" /\ err = ErrFile(GuiAmpFile)
    /\ adiabatic # None /\ Len(calls) = 2

(* C9: in every result, waveform[i] = amplitude[i] * exp(i * phase[i]).    *)
C9_WaveformMatchesPhase ==
    pc = "done" =>
        /\ Len(Val(waveform)) = Len(Val(phase))
        /\ Len(Val(amplitude)) = Len(Val(phase))
        /\ \A i \in 1..Len(Val(phase)) :
              Val(waveform)[i] = CScale(Val(amplitude)[i], Cis(Val(phase)[i]))

C9_Witness ==
    /\ BothPresent
    /\ RawShift[1] % 2 = 1
    /\ Val(waveform)[1] # <<Real(0), Real(0)>>
    /\ Val(waveform)[1] # RawWaveform(AdbSamples[1])

(* C10: in the both-present case the amplitude is the raw adiabatic        *)
(* amplitudes followed by the raw GUI amplitudes, the GUI phase and        *)
(* waveform entries are the raw GUI output, and every adiabatic phase is   *)
(* its raw value minus shift = raw adiabatic phase[last] - GUI phase[first].*)
C10_StitchFrame ==
    BothPresent =>
        LET na == Len(AdbSamples)
            ng == Len(GuiSamples)
        IN  /\ Len(Val(phase)) = na + ng
            /\ Val(amplitude) =
                   [i \in 1..(na + ng) |->
                       IF i <= na THEN AdbAmplitude(AdbSamples[i])
                       ELSE GuiAmplitude(GuiSamples[i - na])]
            /\ \A i \in 1..ng :
                  /\ Val(phase)[na + i] = GuiPhase(GuiSamples[i])
                  /\ Val(waveform)[na + i] =
                         CScale(GuiAmplitude(GuiSamples[i]), Cis(GuiPhase(GuiSamples[i])))
            /\ \A i \in 1..na :
                  Val(phase)[i] = RSub(AdbPhase(AdbSamples[i]), RawShift)
            /\ \A i, j \in 1..na :
                  RSub(Val(phase)[i], Val(phase)[j]) =
                      RSub(AdbPhase(AdbSamples[i]), AdbPhase(AdbSamples[j]))

C10_Witness ==
    /\ BothPresent /\ Len(AdbSamples) = 2 /\ Len(GuiSamples) = 1
    /\ RawShift # Real(0)
    /\ Val(amplitude)[2] # Val(amplitude)[3]

====
